---- MODULE Spec2Model ----
(***************************************************************************)
(* Model of the upload pipeline of ms-clipforge:                           *)
(*   app/core/file_upload/user_uploader.py  upload_files                   *)
(*   app/services/redis_api_service.py      AsyncRedisAPIService           *)
(* A request is received, gated (allow-list, batch size), its task         *)
(* directory is created, every file is processed in order by one loop      *)
(* iteration, and the report is built (with one task submit in dispatch    *)
(* mode).  File names are Python strings, modelled as sequences of         *)
(* one-character strings; paths are sequences of path components.          *)
(***************************************************************************)
EXTENDS Integers, Sequences, FiniteSets, TLC

VARIABLES
    ALLOWED_FILE_EXTENSIONS, \* config: set of accepted suffixes, {} = no check
    dirs,                    \* file system: the directories that exist
    disk,                    \* file system: file path -> [src, size]
    queue,                   \* task-queue service: payloads of the POST /tasks calls received
    pc,                      \* position of the request inside upload_files
    files,                   \* request: the uploaded files, in order
    task_option,             \* request: form field task_option
    video_type,              \* request: form field video_type
    username,                \* request: form field username
    only_file_upload,        \* request: form field only_file_upload
    task_id,                 \* local: the generated task id
    user_task_path,          \* local: the batch directory
    i,                       \* local: number of files the loop has processed
    saved_files,             \* local: list of saved entries
    failed_files,            \* local: list of failed entries
    total_size,              \* local: bytes of the saved files
    task_result,             \* local: what submit_task returned, or the error object
    response,                \* what the HTTP caller receives
    unreadable,              \* file system: the files that cannot be opened for reading
    oss_pc,                  \* position of the call inside OSSUploader or the OSS proxy
    oss_request,             \* the OSSUploader call as the caller made it
    oss_call,                \* the OSSUploader call in progress (a directory becomes a batch)
    oss_log,                 \* what the call did outside the process, in order: files
                             \* opened, requests sent to the OSS service
    oss_result,              \* what the call returned, or the HTTP response of the proxy
    batches                  \* the requests in progress when several are served at once

vars == <<ALLOWED_FILE_EXTENSIONS, dirs, disk, queue, pc, files, task_option,
          video_type, username, only_file_upload, task_id, user_task_path, i,
          saved_files, failed_files, total_size, task_result, response,
          unreadable, oss_pc, oss_request, oss_call, oss_log, oss_result, batches>>

request == <<files, task_option, video_type, username, only_file_upload>>
locals == <<task_id, user_task_path, i, saved_files, failed_files, total_size, task_result>>
oss == <<unreadable, oss_pc, oss_request, oss_call, oss_log, oss_result>>

----------------------------------------------------------------------------
(* Bounds of the model *)

\* longest batch that is enumerated over every kind of file
MaxLen == 2

----------------------------------------------------------------------------
(* Program constants *)

MAX_FILE_SIZE == 200 * 1024 * 1024
MAX_FILES_PER_REQUEST == 50
MAX_COLLISION_COUNTER == 100
BYTES_PER_MB == 1024 * 1024
HTTP_FORBIDDEN == 403
HTTP_UNPROCESSABLE == 422
HTTP_CREATED == 201

ALLOWED_USERS == {"rkwork", "muzi"}
UPLOAD_DIR == <<"srv", "user_uploads">>
None == [none |-> TRUE]
NoPath == <<"<ENOENT>">>

----------------------------------------------------------------------------
(* Python str and pathlib helpers *)

RECURSIVE Str(_)
\* the characters of a name joined into one path component
Str(s) == IF s = <<>> THEN "" ELSE Head(s) \o Str(Tail(s))

IsSpace(c) == c \in {" ", "\t", "\n"}

RECURSIVE LStrip(_)
LStrip(s) == IF s # <<>> /\ IsSpace(Head(s)) THEN LStrip(Tail(s)) ELSE s

RECURSIVE RStrip(_)
RStrip(s) == IF s # <<>> /\ IsSpace(s[Len(s)]) THEN RStrip(SubSeq(s, 1, Len(s) - 1)) ELSE s

\* str.strip()
Strip(s) == RStrip(LStrip(s))

LowerChar(c) == CASE c = "A" -> "a" [] c = "B" -> "b" [] c = "J" -> "j"
                  [] c = "X" -> "x" [] OTHER -> c

\* str.lower()
Lower(s) == [k \in 1..Len(s) |-> LowerChar(s[k])]

Digit(d) == CASE d = 0 -> "0" [] d = 1 -> "1" [] d = 2 -> "2" [] d = 3 -> "3"
              [] d = 4 -> "4" [] d = 5 -> "5" [] d = 6 -> "6" [] d = 7 -> "7"
              [] d = 8 -> "8" [] d = 9 -> "9"

RECURSIVE Dec(_)
\* the decimal text of a natural number, as an f-string formats it
Dec(n) == IF n < 10 THEN <<Digit(n)>> ELSE Dec(n \div 10) \o <<Digit(n % 10)>>

RECURSIVE SplitSlash(_, _)
\* str.split("/"), cur being the component read so far
SplitSlash(s, cur) ==
    IF s = <<>> THEN <<cur>>
    ELSE IF Head(s) = "/" THEN <<cur>> \o SplitSlash(Tail(s), <<>>)
    ELSE SplitSlash(Tail(s), Append(cur, Head(s)))

\* pathlib: the components of a path text; empty and "." components are dropped
PathParts(s) ==
    LET raw == SplitSlash(s, <<>>)
        keep == SelectSeq(raw, LAMBDA c : c # <<>> /\ c # <<".">>)
    IN  keep

\* pathlib: a path text starting with "/" is anchored at the root
IsAbsolute(s) == s # <<>> /\ Head(s) = "/"

\* PurePath.name: the final component, "" when there is none
PathName(s) == LET p == PathParts(s) IN IF p = <<>> THEN <<>> ELSE p[Len(p)]

\* str.rfind("."), 1-based, 0 when absent
RFindDot(name) ==
    LET hits == {k \in 1..Len(name) : name[k] = "."}
    IN  IF hits = {} THEN 0 ELSE CHOOSE k \in hits : \A h \in hits : h <= k

\* PurePath.suffix: from the last dot, unless the dot is first or last
PathSuffix(s) ==
    LET name == PathName(s)
        d == RFindDot(name)
    IN  IF 1 < d /\ d < Len(name) THEN SubSeq(name, d, Len(name)) ELSE <<>>

\* PurePath.stem: the name without its suffix
PathStem(s) ==
    LET name == PathName(s)
        d == RFindDot(name)
    IN  IF 1 < d /\ d < Len(name) THEN SubSeq(name, 1, d - 1) ELSE name

\* base / text: an anchored text replaces base, else its components are appended
JoinPath(base, s) ==
    LET pp == PathParts(s)
        parts == [k \in 1..Len(pp) |-> Str(pp[k])]
    IN  IF IsAbsolute(s) THEN parts ELSE base \o parts

\* Path.name of a joined path
LastPart(p) == IF p = <<>> THEN "" ELSE p[Len(p)]

Prefixes(p) == {SubSeq(p, 1, k) : k \in 0..Len(p)}

----------------------------------------------------------------------------
(* The file system as the operating system resolves paths *)

RECURSIVE Walk(_, _, _)
\* follow the components of rest from directory cur; ".." goes to the parent;
\* stepping from something that is no directory fails
Walk(ds, cur, rest) ==
    IF rest = <<>> THEN cur
    ELSE IF cur \notin ds THEN NoPath
    ELSE IF Head(rest) = ".."
         THEN Walk(ds, IF cur = <<>> THEN cur ELSE SubSeq(cur, 1, Len(cur) - 1), Tail(rest))
         ELSE Walk(ds, Append(cur, Head(rest)), Tail(rest))

Resolve(ds, p) == Walk(ds, <<>>, p)

\* Path.exists()
Exists(ds, dk, p) ==
    LET r == Resolve(ds, p)
    IN  r # NoPath /\ (r \in ds \/ r \in DOMAIN dk)

\* open(p, "wb") succeeds when p resolves, inside an existing directory, to no directory
CanOpen(ds, p) ==
    LET r == Resolve(ds, p)
    IN  r # NoPath /\ r \notin ds /\ r # <<>> /\ SubSeq(r, 1, Len(r) - 1) \in ds

----------------------------------------------------------------------------
(* Sizes in MB, as file_size / 1024 / 1024 rounded to two decimals.  The   *)
(* quotient is exact in binary floating point, so round() and the :.2f     *)
(* format both round the exact value, ties to even.  The model keeps the   *)
(* result in hundredths of a MB.                                           *)

Hundredths(size) ==
    LET whole == size \div BYTES_PER_MB
        num == (size % BYTES_PER_MB) * 100
        q == num \div BYTES_PER_MB
        rem == num % BYTES_PER_MB
        up == 2 * rem > BYTES_PER_MB \/ (2 * rem = BYTES_PER_MB /\ q % 2 = 1)
    IN  whole * 100 + q + (IF up THEN 1 ELSE 0)

\* f"{x:.2f}" of a value given in hundredths
Fmt2(h) == Str(Dec(h \div 100)) \o "." \o Digit((h \div 10) % 10) \o Digit(h % 10)

----------------------------------------------------------------------------
(* One iteration of the loop over the files *)

\* not file.filename or file.filename.strip() == ""
EmptyName(fn) == fn = <<>> \/ Strip(fn) = <<>>

\* the extension check, skipped when no extension is configured
ExtRejected(allowed, fn) ==
    allowed # {} /\ Str(Lower(PathSuffix(fn))) \notin allowed

\* the ceiling compared with >= instead of >
TooLargeAtLimit(size) == size >= MAX_FILE_SIZE

\* file_size > MAX_FILE_SIZE
TooLarge(size) == size > MAX_FILE_SIZE

\* f"{name_part}_{counter}{ext_part}"
NewFilename(fn, counter) == PathStem(fn) \o <<"_">> \o Dec(counter) \o PathSuffix(fn)

\* the guard compared with >= instead of >
CounterExceededAtLimit(counter) == counter >= MAX_COLLISION_COUNTER

\* if counter > 100 after the increment
CounterExceeded(counter) == counter > MAX_COLLISION_COUNTER

\* the k-th path the collision loop looks at: the name itself, then the numbered names
LoopPath(dir, fn, k) ==
    IF k = 0 THEN JoinPath(dir, fn) ELSE JoinPath(dir, NewFilename(fn, k))

\* the loop reaches path k only if it did not raise when it set it (counter is then k + 1)
LoopReaches(k) == k = 0 \/ ~CounterExceeded(k + 1)

\* the name itself is taken without a look at the directory
FindFreeNoCheck(ds, dk, dir, fn) == [raised |-> FALSE, save_path |-> LoopPath(dir, fn, 0)]

\* while save_path.exists(): next candidate, counter += 1, raise past the limit.
\* The loop stops at the first path it reaches that does not exist, and raises
\* when every path it reaches exists.
FindFree(ds, dk, dir, fn) ==
    LET reached == {k \in 0..(MAX_COLLISION_COUNTER + 1) : LoopReaches(k)}
        taken(k) == Exists(ds, dk, LoopPath(dir, fn, k))
    IN  IF \A k \in reached : taken(k) THEN [raised |-> TRUE, save_path |-> <<>>]
        ELSE LET first == CHOOSE k \in reached :
                              ~taken(k) /\ \A m \in reached : m < k => taken(m)
             IN  [raised |-> FALSE, save_path |-> LoopPath(dir, fn, first)]

\* the bytes a write leaves on disk: all of them, or fewer when the write is cut short
BytesWritten(f) == IF f.fault = "short_write" /\ f.size > 0 THEN f.size - 1 ELSE f.size

\* the disk with one more file
WithFile(dk, r, content) ==
    [p \in DOMAIN dk \cup {r} |-> IF p = r THEN content ELSE dk[p]]

\* a verification that only looks whether the file is there
VerifyExistsOnly(ds, dk, save_path, file_size) == ~Exists(ds, dk, save_path)

\* not save_path.exists() or save_path.stat().st_size != file_size
VerifyFailed(ds, dk, save_path, file_size) ==
    \/ ~Exists(ds, dk, save_path)
    \/ dk[Resolve(ds, save_path)].size # file_size

\* a failure that cleans the disk up behind it
FailedAndRolledBack(name, error, dk) ==
    [saved |-> FALSE, entry |-> [filename |-> name, error |-> error],
     disk |-> [p \in {} |-> dk[p]], bytes |-> 0]

\* failed_files.append({"filename": ..., "error": ...}); continue
Failed(name, error, dk) ==
    [saved |-> FALSE, entry |-> [filename |-> name, error |-> error], disk |-> dk, bytes |-> 0]

Saved(fn, save_path, size, dk) ==
    [saved |-> TRUE,
     entry |-> [filename |-> Str(fn), saved_as |-> LastPart(save_path),
                size_mb |-> Hundredths(size)],
     disk |-> dk, bytes |-> size]

\* the body of the for loop for file number idx (1-based)
ProcessFile(idx, f, allowed, dir, ds, dk) ==
    IF EmptyName(f.filename) THEN Failed("file_" \o Str(Dec(idx)), "Empty filename", dk)
    ELSE IF ExtRejected(allowed, f.filename)
    THEN Failed(Str(f.filename),
                "Unsupported file type: " \o Str(Lower(PathSuffix(f.filename))), dk)
    ELSE IF f.fault = "read_error" THEN Failed(Str(f.filename), "read failed", dk)
    ELSE IF TooLarge(f.size)
    THEN Failed(Str(f.filename), "File too large: " \o Fmt2(Hundredths(f.size)) \o "MB", dk)
    ELSE LET slot == FindFree(ds, dk, dir, f.filename)
         IN  IF slot.raised THEN Failed(Str(f.filename), "Too many duplicate files", dk)
             ELSE IF f.fault = "open_error" \/ ~CanOpen(ds, slot.save_path)
             THEN Failed(Str(f.filename), "open failed", dk)
             ELSE LET r == Resolve(ds, slot.save_path)
                      written == WithFile(dk, r, [src |-> idx, size |-> BytesWritten(f)])
                      after == IF f.fault = "vanish" THEN dk ELSE written
                  IN  IF VerifyFailed(ds, after, slot.save_path, f.size)
                      THEN Failed(Str(f.filename), "File write verification failed", after)
                      ELSE Saved(f.filename, slot.save_path, f.size, after)

----------------------------------------------------------------------------
(* upload_files *)

\* uuid.uuid4(): the five groups of hexadecimal digits (8-4-4-4-12) that str() joins with "-"
Uuid4s == {<<"0f8fad5b", "d9cb", "469f", "a165", "70867728950e">>}

\* str(u).replace("-", "")[:16]: without the dashes the first three groups
\* are the first 8 + 4 + 4 = 16 characters
TaskIdOf(u) == u[1] \o u[2] \o u[3]

\* the task ids a request can be given
NewTaskIds == {TaskIdOf(u) : u \in Uuid4s}

TaskDirName(user, tid) == user \o "_" \o "task" \o "_" \o tid

\* the batch directory of a request
TaskPath(user, opt, vt, tid, only) ==
    IF only THEN UPLOAD_DIR \o <<user, tid, TaskDirName(user, tid)>>
    ELSE UPLOAD_DIR \o <<user, opt, vt, TaskDirName(user, tid)>>

\* the status decided by the successful count alone
StatusBySuccess(success_count, failed_count) ==
    IF success_count > 0 THEN "success"
    ELSE IF failed_count > 0 THEN "failed" ELSE "partial_success"

\* "success" if failed_count == 0 else "partial_success" if success_count > 0 else "failed"
Status(success_count, failed_count) ==
    IF failed_count = 0 THEN "success"
    ELSE IF success_count > 0 THEN "partial_success" ELSE "failed"

\* the report returned in both modes
Result(tid, fs, saved, failed, bytes) ==
    [task_id |-> tid,
     status |-> Status(Len(saved), Len(failed)),
     summary |-> [total_files |-> Len(fs), successful |-> Len(saved),
                  failed |-> Len(failed), total_size_mb |-> Hundredths(bytes)],
     saved_files |-> saved,
     failed_files |-> failed,
     timestamp |-> "now"]

\* the folder above the batch directory is submitted
SubmitPayloadOfParent(tid, opt, user, path) ==
    [task_id |-> tid, task_type |-> opt, video_type |-> "Baby",
     data |-> [input_folder |-> SubSeq(path, 1, Len(path) - 1),
               output_folder |-> <<".", user, opt, user \o "_" \o opt \o "_" \o tid>>],
     priority |-> "normal"]

\* the arguments of redisAPIService.submit_task, as posted to /tasks
SubmitPayload(tid, opt, user, path) ==
    [task_id |-> tid, task_type |-> opt, video_type |-> "Baby",
     data |-> [input_folder |-> path,
               output_folder |-> <<".", user, opt, user \o "_" \o opt \o "_" \o tid>>],
     priority |-> "normal"]

Raise(code, detail) ==
    /\ pc' = "raised"
    /\ response' = [status |-> code, detail |-> detail]
    /\ UNCHANGED <<dirs, disk, queue, locals>>

\* any non-empty username passes
AuthorizedAnyName(user) == user # ""

\* the username is in the allow-list
Authorized(user) == user \in ALLOWED_USERS

\* the limit compared with >= instead of >
TooManyFilesAtLimit(fs) == Len(fs) >= MAX_FILES_PER_REQUEST

\* len(files) > 50
TooManyFiles(fs) == Len(fs) > MAX_FILES_PER_REQUEST

\* the request arrives: task id, allow-list, batch size, batch directory
upload_files_begin(req) ==
    /\ pc = "idle"
    /\ files' = req.files
    /\ task_option' = req.task_option
    /\ video_type' = req.video_type
    /\ username' = req.username
    /\ only_file_upload' = req.only_file_upload
    /\ UNCHANGED <<ALLOWED_FILE_EXTENSIONS, oss, batches>>
    /\ \E tid \in NewTaskIds :
        IF ~Authorized(req.username)
        THEN Raise(HTTP_FORBIDDEN, "Access denied. Invalid credentials.")
        ELSE IF req.files = <<>>
        THEN Raise(HTTP_UNPROCESSABLE, "No files provided")
        ELSE IF TooManyFiles(req.files)
        THEN Raise(HTTP_UNPROCESSABLE, "Too many files. Maximum 50 files per request")
        ELSE LET path == TaskPath(req.username, req.task_option, req.video_type,
                                  tid, req.only_file_upload)
             IN  /\ task_id' = tid
                 /\ user_task_path' = path
                 /\ dirs' = dirs \cup Prefixes(path)
                 /\ saved_files' = <<>>
                 /\ failed_files' = <<>>
                 /\ total_size' = 0
                 /\ i' = 0
                 /\ pc' = "loop"
                 /\ UNCHANGED <<disk, queue, task_result, response>>

\* the new entry put in front of the list
PrependSaved(saved, out) == IF out.saved THEN <<out.entry>> \o saved ELSE saved

\* saved_files.append(...) on the success path only
AppendSaved(saved, out) == IF out.saved THEN Append(saved, out.entry) ELSE saved

\* the empty-name path continues without recording the file
AppendFailedButEmptyName(failed, out) ==
    IF out.saved \/ out.entry.error = "Empty filename" THEN failed
    ELSE Append(failed, out.entry)

\* failed_files.append(...) on every path that gives the file up
AppendFailed(failed, out) == IF out.saved THEN failed ELSE Append(failed, out.entry)

\* one iteration of the loop: the next file is validated, written and verified
upload_files_file ==
    /\ pc = "loop"
    /\ i < Len(files)
    /\ LET out == ProcessFile(i + 1, files[i + 1], ALLOWED_FILE_EXTENSIONS,
                              user_task_path, dirs, disk)
       IN  /\ disk' = out.disk
           /\ saved_files' = AppendSaved(saved_files, out)
           /\ failed_files' = AppendFailed(failed_files, out)
           /\ total_size' = total_size + out.bytes
    /\ i' = i + 1
    /\ UNCHANGED <<ALLOWED_FILE_EXTENSIONS, dirs, queue, pc, request, task_id,
                   user_task_path, task_result, response, oss, batches>>

\* store-only mode: the report is returned, nothing is submitted
upload_files_return ==
    /\ pc = "loop"
    /\ i = Len(files)
    /\ only_file_upload
    /\ response' = [status |-> HTTP_CREATED,
                    body |-> Result(task_id, files, saved_files, failed_files, total_size)]
    /\ pc' = "done"
    /\ UNCHANGED <<ALLOWED_FILE_EXTENSIONS, dirs, disk, queue, request, locals, oss, batches>>

\* the task is submitted only when a file was saved
upload_files_dispatch_if_saved ==
    /\ pc = "loop"
    /\ i = Len(files)
    /\ ~only_file_upload
    /\ queue' = IF saved_files = <<>> THEN queue
                ELSE Append(queue, SubmitPayload(task_id, task_option, username, user_task_path))
    /\ \E ok \in BOOLEAN :
        task_result' = IF ok THEN [task_id |-> task_id, status |-> "queued"]
                       ELSE [error |-> "submit failed"]
    /\ response' = [status |-> HTTP_CREATED,
                    body |-> Result(task_id, files, saved_files, failed_files, total_size)]
    /\ pc' = "done"
    /\ UNCHANGED <<ALLOWED_FILE_EXTENSIONS, dirs, disk, request, task_id, user_task_path,
                   i, saved_files, failed_files, total_size, oss, batches>>

\* the failure of submit_task is not caught
upload_files_dispatch_raising ==
    /\ pc = "loop"
    /\ i = Len(files)
    /\ ~only_file_upload
    /\ queue' = Append(queue, SubmitPayload(task_id, task_option, username, user_task_path))
    /\ \E ok \in BOOLEAN :
        IF ok
        THEN /\ task_result' = [task_id |-> task_id, status |-> "queued"]
             /\ response' = [status |-> HTTP_CREATED,
                             body |-> Result(task_id, files, saved_files, failed_files,
                                             total_size)]
             /\ pc' = "done"
        ELSE /\ task_result' = task_result
             /\ response' = [status |-> 500, detail |-> "submit failed"]
             /\ pc' = "raised"
    /\ UNCHANGED <<ALLOWED_FILE_EXTENSIONS, dirs, disk, request, task_id, user_task_path,
                   i, saved_files, failed_files, total_size, oss, batches>>

\* a failed submit_task call is made a second time
upload_files_dispatch_retrying ==
    /\ pc = "loop"
    /\ i = Len(files)
    /\ ~only_file_upload
    /\ \E ok \in BOOLEAN :
        LET payload == SubmitPayload(task_id, task_option, username, user_task_path)
        IN  /\ queue' = IF ok THEN Append(queue, payload) ELSE queue \o <<payload, payload>>
            /\ task_result' = IF ok THEN [task_id |-> task_id, status |-> "queued"]
                              ELSE [error |-> "submit failed"]
    /\ response' = [status |-> HTTP_CREATED,
                    body |-> Result(task_id, files, saved_files, failed_files, total_size)]
    /\ pc' = "done"
    /\ UNCHANGED <<ALLOWED_FILE_EXTENSIONS, dirs, disk, request, task_id, user_task_path,
                   i, saved_files, failed_files, total_size, oss, batches>>

\* dispatch mode: one submit_task call, whose failure is caught, then the report
upload_files_dispatch ==
    /\ pc = "loop"
    /\ i = Len(files)
    /\ ~only_file_upload
    /\ queue' = Append(queue, SubmitPayload(task_id, task_option, username, user_task_path))
    /\ \E ok \in BOOLEAN :
        task_result' = IF ok THEN [task_id |-> task_id, status |-> "queued"]
                       ELSE [error |-> "submit failed"]
    /\ response' = [status |-> HTTP_CREATED,
                    body |-> Result(task_id, files, saved_files, failed_files, total_size)]
    /\ pc' = "done"
    /\ UNCHANGED <<ALLOWED_FILE_EXTENSIONS, dirs, disk, request, task_id, user_task_path,
                   i, saved_files, failed_files, total_size, oss, batches>>

----------------------------------------------------------------------------
(* Requests *)

File(name, size, fault) == [filename |-> name, size |-> size, fault |-> fault]

NameA == <<"a", ".", "j">>
NameB == <<"b", ".", "j">>
NameA1 == <<"a", "_", "1", ".", "j">>
NameUpper == <<"a", ".", "J">>
NameBadExt == <<"a", ".", "x">>
NameBlank == <<" ">>
NameParent == <<".", ".", "/", "a", ".", "j">>
NameSubdir == <<"d", "/", "a", ".", "j">>

\* 128 KiB is 0.125 MB, a tie of the rounding to two decimals
TieSize == 128 * 1024

\* 300.125 MB, over the ceiling and again a tie of the rounding
BigSize == 300 * 1024 * 1024 + TieSize

\* the kinds of file a batch is made of
Kinds ==
    {File(n, 3, "none") : n \in {NameA, NameB, NameA1, NameUpper, NameBadExt, NameBlank,
                                 NameParent, NameSubdir}}
    \cup {File(NameA, sz, "none") :
            sz \in {0, TieSize, MAX_FILE_SIZE, MAX_FILE_SIZE + 1, BigSize}}
    \cup {File(NameA, 3, ft) : ft \in {"read_error", "open_error", "short_write", "vanish"}}
    \cup {File(n, MAX_FILE_SIZE + 1, "none") : n \in {NameBlank, NameBadExt}}

RECURSIVE SeqsUpTo(_, _)
\* the sequences over S of length at most n
SeqsUpTo(S, n) ==
    IF n = 0 THEN {<<>>}
    ELSE LET shorter == SeqsUpTo(S, n - 1)
         IN  shorter \cup {Append(q, x) : q \in {t \in shorter : Len(t) = n - 1}, x \in S}

\* a batch with a saved file before and after each kind of file
Sandwiches == {<<File(NameA, 3, "none"), k, File(NameB, 3, "none")>> : k \in Kinds}

\* a.j, b.j, a.j
Duplicate == <<File(NameA, 3, "none"), File(NameB, 3, "none"), File(NameA, 3, "none")>>

Batches == SeqsUpTo(Kinds, MaxLen) \cup Sandwiches \cup {Duplicate}

Users == {"rkwork", "eve"}

Requests ==
    [files : Batches, task_option : {"cut"}, video_type : {"baby"},
     username : Users, only_file_upload : BOOLEAN]

EmptyDisk == [p \in {} |-> None]

\* no OSS call is in progress
OSSIdle ==
    /\ unreadable = {}
    /\ oss_pc = "idle"
    /\ oss_request = None
    /\ oss_call = None
    /\ oss_log = <<>>
    /\ oss_result = None
    /\ batches = <<>>

ExtConfigs == {{}, {".j"}}

Init ==
    /\ ALLOWED_FILE_EXTENSIONS \in ExtConfigs
    /\ dirs = Prefixes(UPLOAD_DIR)
    /\ disk = EmptyDisk
    /\ queue = <<>>
    /\ pc = "idle"
    /\ files = <<>>
    /\ task_option = ""
    /\ video_type = ""
    /\ username = ""
    /\ only_file_upload = FALSE
    /\ task_id = ""
    /\ user_task_path = <<>>
    /\ i = 0
    /\ saved_files = <<>>
    /\ failed_files = <<>>
    /\ total_size = 0
    /\ task_result = None
    /\ response = [status |-> 0]
    /\ OSSIdle

\* a request is received while none is in progress
Receive == pc = "idle" /\ \E req \in Requests : upload_files_begin(req)

Next ==
    \/ Receive
    \/ upload_files_file
    \/ upload_files_return
    \/ upload_files_dispatch

Spec == Init /\ [][Next]_vars

----------------------------------------------------------------------------
(* Requests at the limits of the code: batches of about 50 files, and a    *)
(* batch directory that already exists with files in it (mkdir is called   *)
(* with exist_ok=True, and the collision loop is there for this case).     *)

Repeat(x, n) == [k \in 1..n |-> x]

LimitBatches ==
    {Repeat(File(n, 3, "none"), len) :
        n \in {NameA, NameB},
        len \in {0, 1, MAX_FILES_PER_REQUEST, MAX_FILES_PER_REQUEST + 1}}
    \cup SeqsUpTo(Kinds, 1)
    \cup Sandwiches

LimitRequests ==
    [files : LimitBatches, task_option : {"cut"}, video_type : {"baby"},
     username : Users, only_file_upload : BOOLEAN]

\* the batch directory a dispatch request of rkwork will get
OldDir == CHOOSE p \in {TaskPath("rkwork", "cut", "baby", tid, FALSE) : tid \in NewTaskIds} : TRUE

\* the directory holding n files left by others: a.j, a_1.j, ..., a_<n-1>.j
OldFiles(n) ==
    LET name(k) == IF k = 0 THEN NameA ELSE NewFilename(NameA, k)
        paths == {JoinPath(OldDir, name(k)) : k \in 0..(n - 1)}
    IN  [p \in paths |-> [src |-> 0, size |-> 1]]

InitLimits ==
    /\ ALLOWED_FILE_EXTENSIONS \in ExtConfigs
    /\ \E n \in {0, MAX_COLLISION_COUNTER - 1, MAX_COLLISION_COUNTER} :
        /\ disk = OldFiles(n)
        /\ dirs = IF n = 0 THEN Prefixes(UPLOAD_DIR) ELSE Prefixes(OldDir)
    /\ queue = <<>>
    /\ pc = "idle"
    /\ files = <<>>
    /\ task_option = ""
    /\ video_type = ""
    /\ username = ""
    /\ only_file_upload = FALSE
    /\ task_id = ""
    /\ user_task_path = <<>>
    /\ i = 0
    /\ saved_files = <<>>
    /\ failed_files = <<>>
    /\ total_size = 0
    /\ task_result = None
    /\ response = [status |-> 0]
    /\ OSSIdle

ReceiveLimits == pc = "idle" /\ \E req \in LimitRequests : upload_files_begin(req)

NextLimits ==
    \/ ReceiveLimits
    \/ upload_files_file
    \/ upload_files_return
    \/ upload_files_dispatch

SpecLimits == InitLimits /\ [][NextLimits]_vars

----------------------------------------------------------------------------
(* The OSS upload path:                                                    *)
(*   app/core/file_upload/oss_uploader.py   OSSUploader                    *)
(*   app/services/oss_service.py            OSSService                     *)
(*   app/apis/v1/endpoints/oss_upload.py    the proxy endpoints            *)
(* The OSS service is outside the process: each request sent to it is      *)
(* appended to oss_log and its answer is any of the answers it can give.   *)
(* The messages of the source are in Chinese; the model keeps a short      *)
(* English text for each.                                                  *)

\* longest list of paths given to upload_files_batch
MaxPaths == 2

HTTP_OK == 200
HTTP_BAD_REQUEST == 400
HTTP_INTERNAL_ERROR == 500

\* dict.get(key) == value: false when the key is absent
GetIs(d, key, value) == key \in DOMAIN d /\ d[key] = value

(* The answers of the OSS service *)

\* a 2xx answer with a JSON body
Json(body) == [kind |-> "json", body |-> body]
\* an answer with an error status, which raise_for_status turns into HTTPStatusError
HttpError(code, text) == [kind |-> "http_error", status_code |-> code, text |-> text]
\* no answer: the request times out or the connection fails
NoAnswer(exc) == [kind |-> exc]

NoAnswers == {NoAnswer("timeout"), NoAnswer("connect_error")}

ErrorAnswers == {HttpError(404, "not found"), HttpError(503, "unavailable")}

HealthAnswers ==
    {Json([status |-> "healthy", service |-> "oss"]), Json([status |-> "degraded"]),
     Json([service |-> "oss"])}
    \cup ErrorAnswers \cup NoAnswers

\* the answers to an upload of one file or one text
SingleAnswers(name) ==
    {Json([success |-> TRUE, file_name |-> name])} \cup ErrorAnswers \cup NoAnswers

\* the answers to an upload of n files: the service reports on the files it received
MultipleAnswers(n) ==
    {Json([success |-> TRUE,
           summary |-> [total |-> n, successful |-> s, failed |-> n - s]]) :
        s \in {k \in {n - 1, n} : k >= 0}}
    \cup {Json([success |-> TRUE])}
    \cup ErrorAnswers \cup NoAnswers

(* What a call leaves in oss_log: the files it opened, and the requests it *)
(* sent, each with the answer it got                                       *)

HealthProbe(answer) == [ev |-> "GET", url |-> "/health", answer |-> answer]
OpenFile(p, ok) == [ev |-> "open", path |-> p, ok |-> ok]
PostFiles(url, names, answer) ==
    [ev |-> "POST", url |-> url, files |-> names, answer |-> answer]
PostText(url, text, filename, answer) ==
    [ev |-> "POST", url |-> url, data |-> [text |-> text, filename |-> filename],
     answer |-> answer]

\* f"HTTP error {e.response.status_code}: {e.response.text}"
HttpErrorMsg(answer) ==
    "HTTP error " \o Str(Dec(answer.status_code)) \o ": " \o answer.text

(* OSSService *)

\* health_check: the JSON of the answer, or the unhealthy object when the request fails
health_check(answer) ==
    IF answer.kind = "json" THEN answer.body
    ELSE [status |-> "unhealthy", error |-> answer.kind]

\* aiofiles.open(p, 'rb') and read() succeed on a regular file that can be read
CanRead(ds, dk, bad, p) ==
    LET r == Resolve(ds, p) IN r \in DOMAIN dk /\ r \notin bad

Out(events, result) == [events |-> events, result |-> result]

\* the failure result of a single upload
SingleFailure(error, name) == [success |-> FALSE, error |-> error, file_name |-> name]

\* a timeout is not caught
upload_single_file_raising(ds, dk, bad, file_path, answer) ==
    LET name == LastPart(file_path)
    IN  IF ~Exists(ds, dk, file_path)
        THEN Out(<<>>, SingleFailure("file not found", name))
        ELSE IF ~CanRead(ds, dk, bad, file_path)
        THEN Out(<<OpenFile(file_path, FALSE)>>, SingleFailure("read failed", name))
        ELSE LET events == <<OpenFile(file_path, TRUE),
                              PostFiles("/upload/single", <<name>>, answer)>>
             IN  IF answer.kind = "json" THEN Out(events, answer.body)
                 ELSE IF answer.kind = "http_error"
                 THEN Out(events, SingleFailure(HttpErrorMsg(answer), name))
                 ELSE IF answer.kind = "timeout" THEN Out(events, [raised |-> "timeout"])
                 ELSE Out(events, SingleFailure(answer.kind, name))

\* upload_single_file: exists, read, POST /upload/single, every exception caught
upload_single_file(ds, dk, bad, file_path, answer) ==
    LET name == LastPart(file_path)
    IN  IF ~Exists(ds, dk, file_path)
        THEN Out(<<>>, SingleFailure("file not found", name))
        ELSE IF ~CanRead(ds, dk, bad, file_path)
        THEN Out(<<OpenFile(file_path, FALSE)>>, SingleFailure("read failed", name))
        ELSE LET events == <<OpenFile(file_path, TRUE),
                              PostFiles("/upload/single", <<name>>, answer)>>
             IN  IF answer.kind = "json" THEN Out(events, answer.body)
                 ELSE IF answer.kind = "http_error"
                 THEN Out(events, SingleFailure(HttpErrorMsg(answer), name))
                 ELSE Out(events, SingleFailure(answer.kind, name))

RECURSIVE ReadValid(_, _, _, _)
\* the loop over file_paths: a path that exists is opened and read, and kept
\* when that succeeds; the others are skipped with a warning
ReadValid(ds, dk, bad, file_paths) ==
    IF file_paths = <<>> THEN [events |-> <<>>, valid_files |-> <<>>]
    ELSE LET p == Head(file_paths)
             rest == ReadValid(ds, dk, bad, Tail(file_paths))
         IN  IF ~Exists(ds, dk, p) THEN rest
             ELSE IF ~CanRead(ds, dk, bad, p)
             THEN [events |-> <<OpenFile(p, FALSE)>> \o rest.events,
                   valid_files |-> rest.valid_files]
             ELSE [events |-> <<OpenFile(p, TRUE)>> \o rest.events,
                   valid_files |-> <<LastPart(p)>> \o rest.valid_files]

Summary(total, successful, failed) ==
    [total |-> total, successful |-> successful, failed |-> failed]

\* the failure result of a batch upload
BatchFailure(error, summary) == [success |-> FALSE, error |-> error, summary |-> summary]

\* the aggregate failure counts the files that were sent only
UpstreamFailureOfSent(error, file_paths, valid_files) ==
    BatchFailure(error, Summary(Len(valid_files), 0, Len(valid_files)))

\* the result of the except clauses of upload_multiple_files
UpstreamFailure(error, file_paths, valid_files) ==
    BatchFailure(error, Summary(Len(file_paths), 0, Len(file_paths)))

\* upload_multiple_files: the readable files go into one POST /upload/multiple,
\* whose JSON is returned as it is; result['summary'] is read for the log line
upload_multiple_files(ds, dk, bad, file_paths, answer) ==
    IF file_paths = <<>>
    THEN Out(<<>>, BatchFailure("empty path list", Summary(0, 0, 0)))
    ELSE LET prep == ReadValid(ds, dk, bad, file_paths)
             events == Append(prep.events,
                              PostFiles("/upload/multiple", prep.valid_files, answer))
         IN  IF prep.valid_files = <<>>
             THEN Out(prep.events,
                      BatchFailure("no valid file", Summary(0, 0, Len(file_paths))))
             ELSE IF answer.kind = "json"
             THEN IF "summary" \in DOMAIN answer.body THEN Out(events, answer.body)
                  ELSE Out(events, UpstreamFailure("'summary'", file_paths, prep.valid_files))
             ELSE IF answer.kind = "http_error"
             THEN Out(events, UpstreamFailure(HttpErrorMsg(answer), file_paths,
                                              prep.valid_files))
             ELSE Out(events, UpstreamFailure(answer.kind, file_paths, prep.valid_files))

\* upload_text_content: POST /upload/text with the form fields text and filename
upload_text_content(text, filename, answer) ==
    LET events == <<PostText("/upload/text", text, filename, answer)>>
    IN  IF answer.kind = "json" THEN Out(events, answer.body)
        ELSE IF answer.kind = "http_error"
        THEN Out(events, SingleFailure(HttpErrorMsg(answer), filename))
        ELSE Out(events, SingleFailure(answer.kind, filename))

(* OSSUploader *)

\* every status but "unhealthy" counts as available
check_service_status_not_unhealthy(answer) ==
    ~GetIs(health_check(answer), "status", "unhealthy")

\* check_service_status: health_status.get("status") == "healthy"
check_service_status(answer) == GetIs(health_check(answer), "status", "healthy")

OSS_UNAVAILABLE == "OSS service unavailable"

\* what upload_file, upload_files_batch and upload_text return when the probe fails
Unavailable(call) ==
    IF call.op = "upload_file"
    THEN SingleFailure(OSS_UNAVAILABLE, LastPart(call.file_path))
    ELSE IF call.op = "upload_files_batch"
    THEN BatchFailure(OSS_UNAVAILABLE,
                      Summary(Len(call.file_paths), 0, Len(call.file_paths)))
    ELSE SingleFailure(OSS_UNAVAILABLE, call.filename)

\* the file names the local tree can hold
KnownNames == {NameA, NameB, NameUpper, NameBadExt}

\* the characters of a path component
Chars(c) == CHOOSE n \in KnownNames : Str(n) = c

\* directory_path.rglob('*') narrowed by is_file(): the files below the directory
Rglob(dk, dir) == {p \in DOMAIN dk : Len(p) > Len(dir) /\ SubSeq(p, 1, Len(dir)) = dir}

\* an empty match list is reported as a failure
NoMatchIsFailure == BatchFailure("no matching file", Summary(0, 0, 0))

\* the result for a directory without a matching file
NoMatch == [success |-> TRUE, message |-> "no matching file", summary |-> Summary(0, 0, 0)]

\* the files of the directory that upload_directory collects
Collected(dk, dir, file_extensions) ==
    {p \in Rglob(dk, dir) :
        file_extensions = {}
        \/ Str(Lower(PathSuffix(Chars(LastPart(p))))) \in file_extensions}

\* the orders in which rglob can yield the files of S
Orders(S) ==
    {q \in [1..Cardinality(S) -> S] : \A a, b \in 1..Cardinality(S) : a # b => q[a] # q[b]}

\* upload_directory up to its call of upload_files_batch: returned tells
\* whether it returns by itself, file_paths are the candidate lists it passes on
upload_directory(ds, dk, directory_path, file_extensions) ==
    LET r == Resolve(ds, directory_path)
    IN  IF r = NoPath \/ r \notin ds
        THEN [returned |-> TRUE,
              result |-> BatchFailure("not a directory", Summary(0, 0, 0)),
              file_paths |-> {}]
        ELSE LET found == Collected(dk, r, file_extensions)
             IN  IF found = {}
                 THEN [returned |-> TRUE, result |-> NoMatch, file_paths |-> {}]
                 ELSE [returned |-> FALSE, result |-> None, file_paths |-> Orders(found)]

\* a call of upload_file, upload_files_batch or upload_text starts with the
\* probe; upload_directory scans the directory first
OSSUploader_call(call) ==
    /\ oss_pc = "idle"
    /\ oss_request' = call
    /\ oss_log' = <<>>
    /\ IF call.op = "upload_directory"
       THEN LET scan == upload_directory(dirs, disk, call.directory_path,
                                         call.file_extensions)
            IN  IF scan.returned
                THEN /\ oss_call' = call
                     /\ oss_result' = scan.result
                     /\ oss_pc' = "returned"
                ELSE /\ \E paths \in scan.file_paths :
                            oss_call' = [op |-> "upload_files_batch", file_paths |-> paths]
                     /\ oss_result' = oss_result
                     /\ oss_pc' = "probe"
       ELSE /\ oss_call' = call
            /\ oss_result' = oss_result
            /\ oss_pc' = "probe"
    /\ UNCHANGED <<ALLOWED_FILE_EXTENSIONS, dirs, disk, queue, pc, request, locals,
                   response, batches, unreadable>>

\* await self.check_service_status(): one GET /health, then the transfer or
\* the service-unavailable result
OSSUploader_probe ==
    /\ oss_pc = "probe"
    /\ \E answer \in HealthAnswers :
        /\ oss_log' = Append(oss_log, HealthProbe(answer))
        /\ IF check_service_status(answer)
           THEN oss_pc' = "service" /\ oss_result' = oss_result
           ELSE oss_pc' = "returned" /\ oss_result' = Unavailable(oss_call)
    /\ UNCHANGED <<ALLOWED_FILE_EXTENSIONS, dirs, disk, queue, pc, request, locals,
                   response, batches, unreadable, oss_request, oss_call>>

\* the call ends with what the service method returned or raised
Finish(out) ==
    /\ oss_log' = oss_log \o out.events
    /\ oss_result' = out.result
    /\ oss_pc' = IF "raised" \in DOMAIN out.result THEN "raised" ELSE "returned"
    /\ UNCHANGED <<ALLOWED_FILE_EXTENSIONS, dirs, disk, queue, pc, request, locals,
                   response, batches, unreadable, oss_request, oss_call>>

OSSService_single ==
    /\ oss_pc = "service"
    /\ oss_call.op = "upload_file"
    /\ \E answer \in SingleAnswers(LastPart(oss_call.file_path)) :
        Finish(upload_single_file(dirs, disk, unreadable, oss_call.file_path, answer))

OSSService_multiple ==
    /\ oss_pc = "service"
    /\ oss_call.op = "upload_files_batch"
    /\ LET sent == ReadValid(dirs, disk, unreadable, oss_call.file_paths).valid_files
       IN  \E answer \in MultipleAnswers(Len(sent)) :
               Finish(upload_multiple_files(dirs, disk, unreadable, oss_call.file_paths,
                                            answer))

OSSService_text ==
    /\ oss_pc = "service"
    /\ oss_call.op = "upload_text"
    /\ \E answer \in SingleAnswers(oss_call.filename) :
        Finish(upload_text_content(oss_call.content, oss_call.filename, answer))

(* The proxy endpoints of oss_upload.py *)

\* raise HTTPException(status_code, detail)
HTTPException(code, detail) == [status_code |-> code, detail |-> detail]

\* str() of an HTTPException
ExcStr(exc) == Str(Dec(exc.status_code)) \o ": " \o exc.detail

\* str() of the httpx exception an answer raises
HttpxStr(answer) ==
    IF answer.kind = "http_error"
    THEN "status " \o Str(Dec(answer.status_code)) \o " for url"
    ELSE answer.kind

\* make_oss_request: the JSON of the answer, or an HTTPException with the
\* status of the answer, or with 500 when there is no answer
make_oss_request(answer) ==
    IF answer.kind = "json" THEN [raised |-> FALSE, value |-> answer.body]
    ELSE IF answer.kind = "http_error"
    THEN [raised |-> TRUE,
          exc |-> HTTPException(answer.status_code, "OSS request failed: " \o answer.text)]
    ELSE [raised |-> TRUE,
          exc |-> HTTPException(HTTP_INTERNAL_ERROR, "cannot reach OSS: " \o answer.kind)]

JSONResponse(content) == [status_code |-> HTTP_OK, content |-> content]

\* POST /single and POST /text: the result of make_oss_request, and
\* except Exception around it, which catches the HTTPException as well
ProxyForward(what, answer) ==
    LET r == make_oss_request(answer)
    IN  IF r.raised
        THEN HTTPException(HTTP_INTERNAL_ERROR, what \o " failed: " \o ExcStr(r.exc))
        ELSE JSONResponse(r.value)

\* POST /multiple: its own request, and except Exception around it
ProxyMultiple(files_in, answer) ==
    IF files_in = <<>> THEN HTTPException(HTTP_BAD_REQUEST, "no file selected")
    ELSE IF answer.kind = "json" THEN JSONResponse(answer.body)
    ELSE HTTPException(HTTP_INTERNAL_ERROR, "multiple upload failed: " \o HttpxStr(answer))

ProxyFiles == {<<>>, <<"a.j">>, <<"a.j", "b.j">>}

\* one request to a proxy endpoint, answered in one step
Respond(req, events, result) ==
    /\ oss_request' = req
    /\ oss_call' = req
    /\ oss_log' = events
    /\ oss_result' = result
    /\ oss_pc' = "responded"
    /\ UNCHANGED <<ALLOWED_FILE_EXTENSIONS, dirs, disk, queue, pc, request, locals,
                   response, batches, unreadable>>

Proxy_single ==
    /\ oss_pc = "idle"
    /\ \E name \in {"a.j", "b.j"} : \E answer \in SingleAnswers(name) :
        Respond([endpoint |-> "/single", files |-> <<name>>],
                <<PostFiles("/upload/single", <<name>>, answer)>>,
                ProxyForward("file upload", answer))

Proxy_multiple ==
    /\ oss_pc = "idle"
    /\ \E fs \in ProxyFiles : \E answer \in MultipleAnswers(Len(fs)) :
        Respond([endpoint |-> "/multiple", files |-> fs],
                IF fs = <<>> THEN <<>> ELSE <<PostFiles("/upload/multiple", fs, answer)>>,
                ProxyMultiple(fs, answer))

Proxy_text ==
    /\ oss_pc = "idle"
    /\ \E filename \in {"text_file.txt", "n.txt"} : \E answer \in SingleAnswers(filename) :
        Respond([endpoint |-> "/text", text |-> "hello", filename |-> filename],
                <<PostText("/upload/text", "hello", filename, answer)>>,
                ProxyForward("text upload", answer))

(* The calls and the local files they are made on *)

DataDir == <<"data">>
EmptyDir == <<"empty">>
TextDir == <<"texts">>

LocalDirs == Prefixes(DataDir) \cup {Append(DataDir, "sub"), EmptyDir, TextDir}

LocalFiles ==
    {Append(DataDir, "a.j"), Append(DataDir, "a.J"), <<"data", "sub", "b.j">>,
     Append(TextDir, "a.x")}

\* paths given to upload_file and upload_files_batch: two files, a path that
\* does not exist, a directory
LocalPaths ==
    {Append(DataDir, "a.j"), Append(DataDir, "a.J"), Append(DataDir, "b.j"), DataDir}

Filters == {{}, {".j"}, {".J"}, {".x"}}

OSSCalls ==
    {[op |-> "upload_file", file_path |-> p] : p \in LocalPaths}
    \cup {[op |-> "upload_files_batch", file_paths |-> ps] : ps \in SeqsUpTo(LocalPaths, MaxPaths)}
    \cup {[op |-> "upload_text", content |-> "hello", filename |-> f] :
            f \in {"text_content.txt", "n.txt"}}
    \cup {[op |-> "upload_directory", directory_path |-> d, file_extensions |-> e] :
            d \in {DataDir, EmptyDir, TextDir, <<"nowhere">>, Append(DataDir, "a.j")},
            e \in Filters}

InitOSS ==
    /\ ALLOWED_FILE_EXTENSIONS = {}
    /\ dirs = LocalDirs
    /\ disk = [p \in LocalFiles |-> [src |-> 0, size |-> 1]]
    /\ unreadable \in {{}, {Append(DataDir, "a.j")}}
    /\ queue = <<>>
    /\ pc = "idle"
    /\ files = <<>>
    /\ task_option = ""
    /\ video_type = ""
    /\ username = ""
    /\ only_file_upload = FALSE
    /\ task_id = ""
    /\ user_task_path = <<>>
    /\ i = 0
    /\ saved_files = <<>>
    /\ failed_files = <<>>
    /\ total_size = 0
    /\ task_result = None
    /\ response = [status |-> 0]
    /\ oss_pc = "idle"
    /\ oss_request = None
    /\ oss_call = None
    /\ oss_log = <<>>
    /\ oss_result = None
    /\ batches = <<>>

OSSCall == oss_pc = "idle" /\ \E call \in OSSCalls : OSSUploader_call(call)

NextOSS ==
    \/ OSSCall
    \/ OSSUploader_probe
    \/ OSSService_single
    \/ OSSService_multiple
    \/ OSSService_text
    \/ Proxy_single
    \/ Proxy_multiple
    \/ Proxy_text

SpecOSS == InitOSS /\ [][NextOSS]_vars

----------------------------------------------------------------------------
(* One call of either kind: the process serves an upload_files request or  *)
(* an OSSUploader call.                                                    *)

CallBatches == SeqsUpTo(Kinds, 1)

CallRequests ==
    [files : CallBatches, task_option : {"cut"}, video_type : {"baby"},
     username : Users, only_file_upload : BOOLEAN]

InitCalls ==
    /\ ALLOWED_FILE_EXTENSIONS = {}
    /\ dirs = LocalDirs \cup Prefixes(UPLOAD_DIR)
    /\ disk = [p \in LocalFiles |-> [src |-> 0, size |-> 1]]
    /\ unreadable \in {{}, {Append(DataDir, "a.j")}}
    /\ queue = <<>>
    /\ pc = "idle"
    /\ files = <<>>
    /\ task_option = ""
    /\ video_type = ""
    /\ username = ""
    /\ only_file_upload = FALSE
    /\ task_id = ""
    /\ user_task_path = <<>>
    /\ i = 0
    /\ saved_files = <<>>
    /\ failed_files = <<>>
    /\ total_size = 0
    /\ task_result = None
    /\ response = [status |-> 0]
    /\ oss_pc = "idle"
    /\ oss_request = None
    /\ oss_call = None
    /\ oss_log = <<>>
    /\ oss_result = None
    /\ batches = <<>>

\* an upload_files request is received while no call is in progress
ReceiveCalls ==
    pc = "idle" /\ oss_pc = "idle" /\ \E req \in CallRequests : upload_files_begin(req)

\* an OSSUploader call is made while no call is in progress
OSSCallCalls ==
    pc = "idle" /\ oss_pc = "idle" /\ \E call \in OSSCalls : OSSUploader_call(call)

NextCalls ==
    \/ ReceiveCalls
    \/ upload_files_file
    \/ upload_files_return
    \/ upload_files_dispatch
    \/ OSSCallCalls
    \/ OSSUploader_probe
    \/ OSSService_single
    \/ OSSService_multiple
    \/ OSSService_text

SpecCalls == InitCalls /\ [][NextCalls]_vars

----------------------------------------------------------------------------
(* Two upload_files requests served at once.  upload_files is a coroutine  *)
(* on the one event loop that main.py starts; inside the loop body the     *)
(* only await is the read of the upload (line 88), and the collision loop, *)
(* the write with the built-in open() and the verification follow it       *)
(* without a suspension.  The requests therefore interleave file by file:  *)
(* the step of one file is upload_files_file's, taken by either request.   *)

\* the uuid of the second request: it differs from the first's, and gives
\* the same task id (one chance in 2^64) or another
ConcurrentUuids ==
    {<<"0f8fad5b", "d9cb", "469f", "b000", "000000000000">>,
     <<"7c9e6679", "7425", "40de", "944b", "e07fc1f90ae7">>}

ConcurrentKinds == {File(n, 3, "none") : n \in {NameA, NameA1, NameParent}}

\* the files the two requests carry together
MaxInFlight == 3

\* the batches of a request that passes the gates
ConcurrentBatches == SeqsUpTo(ConcurrentKinds, MaxLen) \ {<<>>}

\* the locals of a request when it enters the loop
BeginBatch(u, only, fs) ==
    [task_id |-> TaskIdOf(u), only_file_upload |-> only,
     user_task_path |-> TaskPath("rkwork", "cut", "baby", TaskIdOf(u), only),
     files |-> fs, i |-> 0, saved_files |-> <<>>, failed_files |-> <<>>,
     total_size |-> 0, pc |-> "loop", response |-> None]

\* the content of file k of request b, as the disk records it
SrcOf(b, k) == b * (MAX_FILES_PER_REQUEST + 1) + k

\* the disk after a step of request b: what the step wrote is marked as b's
Marked(b, after) ==
    [p \in DOMAIN after |->
        IF after[p].src <= MAX_FILES_PER_REQUEST
        THEN [after[p] EXCEPT !.src = SrcOf(b, after[p].src)]
        ELSE after[p]]

InitConcurrent ==
    /\ ALLOWED_FILE_EXTENSIONS = {}
    /\ \E u \in ConcurrentUuids, only \in BOOLEAN, fs1, fs2 \in ConcurrentBatches :
        /\ Len(fs1) + Len(fs2) <= MaxInFlight
        /\ batches = <<BeginBatch(CHOOSE v \in Uuid4s : TRUE, FALSE, fs1),
                       BeginBatch(u, only, fs2)>>
    /\ dirs = Prefixes(batches[1].user_task_path) \cup Prefixes(batches[2].user_task_path)
    /\ disk = EmptyDisk
    /\ queue = <<>>
    /\ pc = "idle"
    /\ files = <<>>
    /\ task_option = ""
    /\ video_type = ""
    /\ username = ""
    /\ only_file_upload = FALSE
    /\ task_id = ""
    /\ user_task_path = <<>>
    /\ i = 0
    /\ saved_files = <<>>
    /\ failed_files = <<>>
    /\ total_size = 0
    /\ task_result = None
    /\ response = [status |-> 0]
    /\ unreadable = {}
    /\ oss_pc = "idle"
    /\ oss_request = None
    /\ oss_call = None
    /\ oss_log = <<>>
    /\ oss_result = None

\* one iteration of the loop of request b
Concurrent_file(b) ==
    /\ batches[b].pc = "loop"
    /\ batches[b].i < Len(batches[b].files)
    /\ LET r == batches[b]
           out == ProcessFile(r.i + 1, r.files[r.i + 1], ALLOWED_FILE_EXTENSIONS,
                              r.user_task_path, dirs, disk)
       IN  /\ disk' = Marked(b, out.disk)
           /\ batches' = [batches EXCEPT ![b] =
                             [r EXCEPT !.i = r.i + 1,
                                       !.saved_files = AppendSaved(r.saved_files, out),
                                       !.failed_files = AppendFailed(r.failed_files, out),
                                       !.total_size = r.total_size + out.bytes]]
    /\ UNCHANGED <<ALLOWED_FILE_EXTENSIONS, dirs, queue, pc, request, locals, response, oss>>

\* request b leaves the loop: the task is submitted in dispatch mode, the report returned
Concurrent_return(b) ==
    /\ batches[b].pc = "loop"
    /\ batches[b].i = Len(batches[b].files)
    /\ LET r == batches[b]
       IN  /\ queue' = IF r.only_file_upload THEN queue
                       ELSE Append(queue, SubmitPayload(r.task_id, "cut", "rkwork",
                                                        r.user_task_path))
           /\ batches' = [batches EXCEPT ![b] =
                             [r EXCEPT !.pc = "done",
                                       !.response =
                                           [status |-> HTTP_CREATED,
                                            body |-> Result(r.task_id, r.files, r.saved_files,
                                                            r.failed_files, r.total_size)]]]
    /\ UNCHANGED <<ALLOWED_FILE_EXTENSIONS, dirs, disk, pc, request, locals, response, oss>>

ConcurrentFile == \E b \in {1, 2} : Concurrent_file(b)
ConcurrentReturn == \E b \in {1, 2} : Concurrent_return(b)

NextConcurrent == ConcurrentFile \/ ConcurrentReturn

SpecConcurrent == InitConcurrent /\ [][NextConcurrent]_vars

----------------------------------------------------------------------------
(* Properties *)

Report == response.body

IsPrefix(s, t) == Len(s) <= Len(t) /\ SubSeq(t, 1, Len(s)) = s

\* the files of the batch whose whole content is on disk
OnDisk(k) == \E p \in DOMAIN disk : disk[p].src = k /\ disk[p].size = files[k].size
SavedIdx == {k \in 1..i : OnDisk(k)}

\* C1: for every accepted batch, in both modes, the returned status is
\* "success" exactly when the failed count is 0, "failed" exactly when the
\* successful count is 0 and the failed count is positive, and
\* "partial_success" in every other case.
C1_StatusFromCounts ==
    pc = "done" =>
        LET ok == Report.summary.successful
            bad == Report.summary.failed
        IN  /\ Report.status \in {"success", "partial_success", "failed"}
            /\ (Report.status = "success") <=> (bad = 0)
            /\ (Report.status = "failed") <=> (ok = 0 /\ bad > 0)
            /\ (Report.status = "partial_success") <=> (ok > 0 /\ bad > 0)
            /\ ok = Len(Report.saved_files)
            /\ bad = Len(Report.failed_files)

C1_Witness ==
    /\ pc = "done"
    /\ ~only_file_upload
    /\ Report.status = "partial_success"
    /\ Report.summary.successful = 1
    /\ Report.summary.failed = 1

\* the name is not blank and the extension is accepted
PassesNameChecks(f) ==
    /\ Strip(f.filename) # <<>>
    /\ (ALLOWED_FILE_EXTENSIONS = {}
        \/ Str(Lower(PathSuffix(f.filename))) \in ALLOWED_FILE_EXTENSIONS)

\* C2: each input file of an accepted batch produces exactly one outcome,
\* an entry of saved_files or an entry of failed_files; the report has
\* total_files = N and successful + failed = N; when every file passes
\* validation and is written, successful = N and the status is "success".
C2_OneOutcomePerFile ==
    /\ pc \in {"loop", "done"} =>
        /\ Len(saved_files) = Cardinality(SavedIdx)
        /\ Len(failed_files) = i - Cardinality(SavedIdx)
    /\ pc = "done" =>
        /\ i = Len(files)
        /\ Report.summary.total_files = Len(files)
        /\ Report.summary.successful = Len(saved_files)
        /\ Report.summary.failed = Len(failed_files)
        /\ Report.summary.successful + Report.summary.failed = Len(files)
        /\ (\A k \in 1..Len(files) :
                PassesNameChecks(files[k]) /\ files[k].size <= MAX_FILE_SIZE /\ OnDisk(k))
            => Report.summary.successful = Len(files) /\ Report.status = "success"

C2_Witness ==
    /\ pc = "done"
    /\ Len(files) = 3
    /\ Report.summary.successful = 3
    /\ Report.status = "success"

\* C3: a batch of a username outside the allow-list is rejected with 403
\* before any per-file processing: no directory is created, no file is
\* written, no task is submitted, whatever the files and the mode.
C3_ForbiddenBeforeAnyEffect ==
    (pc # "idle" /\ username \notin ALLOWED_USERS) =>
        /\ pc = "raised"
        /\ response.status = 403
        /\ dirs = Prefixes(UPLOAD_DIR)
        /\ disk = EmptyDisk
        /\ queue = <<>>
        /\ saved_files = <<>> /\ failed_files = <<>>

C3_Witness ==
    /\ pc = "raised"
    /\ response.status = 403
    /\ username = "eve"
    /\ Len(files) = 2
    /\ ~only_file_upload

\* C4: an authorized batch of zero files or of more than 50 files is
\* rejected with 422 before any writing: the rejecting step creates no
\* directory, writes no file and submits no task, and nothing happens
\* after it; a batch of exactly 50 files is accepted.
C4_BatchSizeGate ==
    [][/\ (pc = "idle" /\ pc' # "idle" /\ username' \in ALLOWED_USERS) =>
            /\ (Len(files') = 0 \/ Len(files') > 50) =>
                    /\ pc' = "raised"
                    /\ response'.status = 422
                    /\ dirs' = dirs /\ disk' = disk /\ queue' = queue
            /\ (Len(files') >= 1 /\ Len(files') <= 50) => pc' = "loop"
       /\ pc = "raised" => UNCHANGED vars]_vars

C4_Witness ==
    /\ pc = "raised"
    /\ response.status = 422
    /\ username \in ALLOWED_USERS
    /\ Len(files) = 51

\* C5: inside an accepted batch a per-file failure (empty name, rejected
\* extension, oversize, too many collisions, failed verification, an error
\* while reading or writing) never aborts the batch and never undoes earlier
\* work: no step of the loop removes or changes a file on disk or an entry
\* of saved_files or failed_files, every step of the loop goes on to the
\* next file, and the request ends with a report (201) over all the files.
C5_FailuresAreIsolated ==
    /\ [][pc = "loop" =>
            /\ pc' \in {"loop", "done"}
            /\ IsPrefix(saved_files, saved_files')
            /\ IsPrefix(failed_files, failed_files')
            /\ \A p \in DOMAIN disk : p \in DOMAIN disk' /\ disk'[p] = disk[p]
            /\ i < Len(files) => (i' = i + 1 /\ pc' = "loop")
            /\ pc' = "done" => i = Len(files)]_vars
    /\ [](pc = "done" =>
            /\ response.status = 201
            /\ Report.saved_files = saved_files
            /\ Report.failed_files = failed_files
            /\ Len(saved_files) + Len(failed_files) = Len(files)
            /\ \A n \in 1..Len(saved_files) :
                \E p \in DOMAIN disk :
                    /\ LastPart(p) = saved_files[n].saved_as
                    /\ disk[p].src \in 1..Len(files)
                    /\ Str(files[disk[p].src].filename) = saved_files[n].filename
                    /\ disk[p].size = files[disk[p].src].size)

C5_Witness ==
    /\ pc = "done"
    /\ Len(files) = 3
    /\ Len(saved_files) = 2
    /\ saved_files[1].saved_as = "a.j"
    /\ saved_files[2].saved_as = "b.j"
    /\ Len(failed_files) = 1
    /\ failed_files[1].error = "File write verification failed"
    /\ OnDisk(1) /\ OnDisk(3)

\* the file the next step of the loop processes
NextFile == files[i + 1]

\* the k-th name collision resolution tries for a file name, inside the batch directory
Candidate(fn, k) ==
    IF k = 0 THEN JoinPath(user_task_path, fn)
    ELSE Append(user_task_path, Str(PathStem(fn) \o <<"_">> \o Dec(k) \o PathSuffix(fn)))

Collides(fn, k) == Exists(dirs, disk, Candidate(fn, k))

\* k is the first candidate that does not exist
FirstFree(fn, k) == ~Collides(fn, k) /\ \A m \in 0..(k - 1) : Collides(fn, m)

\* the file gets as far as collision resolution
ReachesWriter(f) ==
    PassesNameChecks(f) /\ f.fault # "read_error" /\ f.size <= MAX_FILE_SIZE

FileStep == pc = "loop" /\ i < Len(files)

NewPaths == DOMAIN disk' \ DOMAIN disk

\* C6: saving never overwrites; a file whose name exists is stored under the
\* name with a numeric suffix, so the stored names (saved_as) of the saved
\* files of one batch are pairwise distinct, each saved file is on disk
\* under its saved_as name with its own content, the
\* filename field keeps the original name, and a.j, b.j, a.j are stored as
\* a.j, b.j, a_1.j with status "success".
C6_DistinctStoredNames ==
    pc = "done" =>
        /\ \A m, n \in 1..Len(saved_files) :
                m # n => saved_files[m].saved_as # saved_files[n].saved_as
        /\ \A n \in 1..Len(saved_files) :
                \E p \in DOMAIN disk :
                    /\ LastPart(p) = saved_files[n].saved_as
                    /\ disk[p].src \in 1..Len(files)
                    /\ Str(files[disk[p].src].filename) = saved_files[n].filename
                    /\ disk[p].size = files[disk[p].src].size
        /\ files = Duplicate =>
                /\ [n \in 1..Len(saved_files) |-> saved_files[n].saved_as]
                        = <<"a.j", "b.j", "a_1.j">>
                /\ Report.status = "success"

\* C7: collision resolution tries name.ext, name_1.ext, name_2.ext, ... in
\* this order and stores the file under the first that does not exist; the
\* file fails with "Too many duplicate files" if and only if the first 100
\* candidates all exist, and then nothing is written and the loop goes on.
C7_FirstFreeCandidate ==
    [][(FileStep /\ ReachesWriter(NextFile)) =>
        LET fn == NextFile.filename
            allCollide == \A k \in 0..99 : Collides(fn, k)
            tooMany == failed_files' = Append(failed_files,
                          [filename |-> Str(fn), error |-> "Too many duplicate files"])
        IN  /\ allCollide <=> tooMany
            /\ allCollide =>
                    /\ disk' = disk /\ saved_files' = saved_files
                    /\ pc' = "loop" /\ i' = i + 1
            /\ \A p \in NewPaths :
                    \E k \in 0..99 : FirstFree(fn, k) /\ p = Resolve(dirs, Candidate(fn, k))
            /\ saved_files' # saved_files =>
                    \E k \in 0..99 :
                        /\ FirstFree(fn, k)
                        /\ Resolve(dirs, Candidate(fn, k)) \in NewPaths
                        /\ saved_files'[Len(saved_files')].saved_as = LastPart(Candidate(fn, k))]_vars

C7_Witness ==
    /\ pc = "loop"
    /\ i = 2
    /\ Len(files) = 50
    /\ Len(failed_files) = 2
    /\ failed_files[1].error = "Too many duplicate files"
    /\ failed_files[2].error = "Too many duplicate files"
    /\ Cardinality(DOMAIN disk) = 100

\* C8: after the write the size on disk is read back; if the file is missing
\* or its size differs from the content length the file is recorded in
\* failed_files with the verification error, is not listed in saved_files
\* and adds nothing to the total; a file is listed in saved_files only if a
\* file with exactly its content length was on disk when it was verified.
C8_WriteIsVerified ==
    [][FileStep =>
        LET f == NextFile
            verifyError == [filename |-> Str(f.filename),
                            error |-> "File write verification failed"]
            vanished == /\ f.fault = "vanish"
                        /\ ReachesWriter(f)
                        /\ \E k \in 0..99 :
                            FirstFree(f.filename, k) /\ CanOpen(dirs, Candidate(f.filename, k))
        IN  /\ saved_files' # saved_files =>
                    /\ \E p \in NewPaths :
                            /\ disk'[p] = [src |-> i + 1, size |-> f.size]
                            /\ saved_files'[Len(saved_files')].saved_as = LastPart(p)
                    /\ total_size' = total_size + f.size
            /\ ((\E p \in NewPaths : disk'[p].size # f.size) \/ vanished) =>
                    /\ failed_files' = Append(failed_files, verifyError)
                    /\ saved_files' = saved_files
                    /\ total_size' = total_size]_vars

C8_Witness ==
    /\ pc = "done"
    /\ Len(failed_files) = 1
    /\ failed_files[1].error = "File write verification failed"
    /\ \E p \in DOMAIN disk : disk[p].size # files[disk[p].src].size
    /\ Report.summary.total_size_mb = 0
    /\ Report.summary.successful = 0

\* the size in MB, to two decimals, of the oversized files of the model
ExpectedMB(size) ==
    CASE size = 200 * 1024 * 1024 + 1 -> "200.00"
      [] size = 300 * 1024 * 1024 + 128 * 1024 -> "300.12"

\* C9 as stated: every file whose content length exceeds MAX_FILE_SIZE
\* appears in failed_files with an error giving its size in MB, is not
\* counted as successful and is never written to disk.
C9_AsStated ==
    pc = "done" =>
        \A k \in 1..Len(files) :
            files[k].size > 200 * 1024 * 1024 =>
                /\ \E n \in 1..Len(failed_files) :
                        failed_files[n] =
                            [filename |-> Str(files[k].filename),
                             error |-> "File too large: " \o ExpectedMB(files[k].size) \o "MB"]
                /\ \A p \in DOMAIN disk : disk[p].src # k

\* C9 amended: a file whose content exceeds MAX_FILE_SIZE is always recorded
\* in failed_files, never saved, never counted in the total and never
\* written; its error gives its size in MB when its name is not blank, its
\* extension is accepted and its content could be read (a blank name or a
\* rejected extension is reported instead, the content not being read); a
\* file of exactly MAX_FILE_SIZE is not rejected for its size.
C9_OversizeRejected ==
    [][FileStep =>
        LET f == NextFile
            sizeError(sz) == [filename |-> Str(f.filename),
                              error |-> "File too large: " \o ExpectedMB(sz) \o "MB"]
        IN  /\ f.size > 200 * 1024 * 1024 =>
                    /\ saved_files' = saved_files
                    /\ total_size' = total_size
                    /\ disk' = disk
                    /\ Len(failed_files') = Len(failed_files) + 1
            /\ (f.size > 200 * 1024 * 1024 /\ PassesNameChecks(f) /\ f.fault # "read_error") =>
                    failed_files' = Append(failed_files, sizeError(f.size))
            /\ f.size = 200 * 1024 * 1024 =>
                    failed_files' # Append(failed_files, sizeError(f.size + 1))
            /\ (f.size = 200 * 1024 * 1024 /\ PassesNameChecks(f) /\ f.fault = "none"
                    /\ CanOpen(dirs, Candidate(f.filename, 0))) =>
                    Len(saved_files') = Len(saved_files) + 1]_vars

C9_Witness ==
    /\ pc = "done"
    /\ Len(files) = 3
    /\ Len(failed_files) = 1
    /\ files[2].size = 300 * 1024 * 1024 + 128 * 1024
    /\ failed_files[1] = [filename |-> "a.j", error |-> "File too large: 300.12MB"]
    /\ Report.summary.successful = 2
    /\ Cardinality(DOMAIN disk) = 2

\* the name the report gives file k
ReportName(k) ==
    IF Strip(files[k].filename) = <<>> THEN "file_" \o Str(Dec(k)) ELSE Str(files[k].filename)

RECURSIVE NamesFrom(_, _)
\* the report names of the files k..i that are in S, in input order
NamesFrom(k, S) ==
    IF k > i THEN <<>>
    ELSE (IF k \in S THEN <<ReportName(k)>> ELSE <<>>) \o NamesFrom(k + 1, S)

RECURSIVE BytesFrom(_, _)
\* the bytes of the files k..i that are in S
BytesFrom(k, S) ==
    IF k > i THEN 0
    ELSE (IF k \in S THEN files[k].size ELSE 0) + BytesFrom(k + 1, S)

\* C10: the report preserves input order: saved_files is the subsequence of
\* the input files that were saved, failed_files the subsequence that
\* failed, each in the order received; total_size_mb is computed from the
\* bytes of the saved files only.
C10_InputOrderKept ==
    pc \in {"loop", "done"} =>
        /\ [n \in 1..Len(saved_files) |-> saved_files[n].filename] = NamesFrom(1, SavedIdx)
        /\ [n \in 1..Len(failed_files) |-> failed_files[n].filename]
                = NamesFrom(1, (1..i) \ SavedIdx)
        /\ total_size = BytesFrom(1, SavedIdx)
        /\ pc = "done" =>
                /\ Report.saved_files = saved_files
                /\ Report.failed_files = failed_files
                /\ Report.summary.total_size_mb = Hundredths(BytesFrom(1, SavedIdx))

C10_Witness ==
    /\ pc = "done"
    /\ Len(files) = 3
    /\ [n \in 1..Len(saved_files) |-> saved_files[n].filename] = <<"a.j", "b.j">>
    /\ [n \in 1..Len(failed_files) |-> failed_files[n].filename] = <<"file_2">>
    /\ files[2].size > 200 * 1024 * 1024
    /\ Report.summary.total_size_mb = 0

----------------------------------------------------------------------------
(* The batch directory and the task submitted for it *)

\* the batch directory as documented: <root>/<username>/[<category>/<subtype>/]<username>_task_<TaskId>
StoragePath ==
    IF only_file_upload
    THEN UPLOAD_DIR \o <<username, username \o "_task_" \o task_id>>
    ELSE UPLOAD_DIR \o <<username, task_option, video_type, username \o "_task_" \o task_id>>

\* C11: the batch directory is <root>/<username>/<category>/<subtype>/
\* <username>_task_<TaskId> in dispatch mode and
\* <root>/<username>/<username>_task_<TaskId>, with no other segment, in
\* store-only mode; it exists before any file of the batch is written and
\* every file of the batch is written directly into it.
C11_BatchDirectory ==
    pc \in {"loop", "done"} =>
        /\ user_task_path = StoragePath
        /\ user_task_path \in dirs
        /\ \A p \in DOMAIN disk : p = Append(user_task_path, LastPart(p))

\* C12: the number of submit calls of one request is fixed by the mode:
\* none before the loop has processed every file, none at all in store-only
\* mode or for a rejected batch, exactly one in dispatch mode for every
\* accepted batch, whatever the number of saved files, and none afterwards.
C12_SubmitCountByMode ==
    [][/\ queue' # queue =>
            /\ pc = "loop" /\ i = Len(files) /\ ~only_file_upload
            /\ queue = <<>> /\ Len(queue') = 1
       /\ pc' = "done" => Len(queue') = (IF only_file_upload' THEN 0 ELSE 1)
       /\ pc' \in {"loop", "raised"} => queue' = <<>>
       /\ pc \in {"done", "raised"} => UNCHANGED vars]_vars

C12_Witness ==
    /\ pc = "done"
    /\ ~only_file_upload
    /\ Len(files) = 2
    /\ saved_files = <<>>
    /\ Len(queue) = 1

C14_SubmitFailureNotRaised ==
    [][(pc = "loop" /\ pc' # "loop" /\ ~only_file_upload) =>
            /\ pc' = "done"
            /\ response'.status = 201
            /\ response'.body.task_id = task_id
            /\ response'.body.status =
                   (IF Len(failed_files) = 0 THEN "success"
                    ELSE IF Len(saved_files) > 0 THEN "partial_success" ELSE "failed")
            /\ response'.body.summary.total_files = Len(files)
            /\ response'.body.summary.successful = Len(saved_files)
            /\ response'.body.summary.failed = Len(failed_files)
            /\ response'.body.saved_files = saved_files
            /\ response'.body.failed_files = failed_files
            /\ disk' = disk /\ dirs' = dirs]_vars

C14_Witness ==
    /\ pc = "done"
    /\ ~only_file_upload
    /\ "error" \in DOMAIN task_result
    /\ response.status = 201
    /\ Report.status = "partial_success"
    /\ Cardinality(DOMAIN disk) = 1

\* C15: in dispatch mode the report returned to the caller carries the
\* outcome of the submit call: the answer of the task queue when the call
\* succeeded, the error object when it failed.
C15_SubmitOutcomeInReport ==
    (pc = "done" /\ ~only_file_upload) =>
        /\ "task_result" \in DOMAIN Report
        /\ Report.task_result = task_result

----------------------------------------------------------------------------
(* The OSS upload path *)

\* the operations of OSSUploader that start with the probe
ProbedOps == {"upload_file", "upload_files_batch", "upload_text"}

\* an OSSUploader call has got past its first step
InUploader == oss_pc \in {"probe", "service", "returned", "raised"}

\* the probe got an answer whose status is 'healthy'
ReportsHealthy(answer) ==
    /\ answer.kind = "json"
    /\ "status" \in DOMAIN answer.body
    /\ answer.body.status = "healthy"

\* the requests of the log sent to an upload endpoint
Posts == SelectSeq(oss_log, LAMBDA e : e.ev = "POST")

\* the files the log shows as opened
Opens == SelectSeq(oss_log, LAMBDA e : e.ev = "open")

\* C16: upload_file, upload_files_batch and upload_text run the health
\* probe first; when the probe fails or reports a status other than
\* 'healthy' the operation returns success:false with the
\* service-unavailable error (with the file name, or for a batch the
\* summary successful 0, failed = total = number of paths), sends no
\* upload request and opens no file.
C16_ProbeFirst ==
    (oss_pc \in {"service", "returned", "raised"} /\ oss_call.op \in ProbedOps) =>
        /\ Len(oss_log) >= 1
        /\ oss_log[1].ev = "GET" /\ oss_log[1].url = "/health"
        /\ ~ReportsHealthy(oss_log[1].answer) =>
            /\ oss_pc = "returned"
            /\ Len(oss_log) = 1
            /\ oss_result.success = FALSE
            /\ oss_result.error = OSS_UNAVAILABLE
            /\ oss_call.op = "upload_file" =>
                   oss_result.file_name = LastPart(oss_call.file_path)
            /\ oss_call.op = "upload_text" => oss_result.file_name = oss_call.filename
            /\ oss_call.op = "upload_files_batch" =>
                   oss_result.summary = [total |-> Len(oss_call.file_paths),
                                         successful |-> 0,
                                         failed |-> Len(oss_call.file_paths)]

C16_Witness ==
    /\ oss_pc = "returned"
    /\ oss_call.op = "upload_files_batch"
    /\ Len(oss_call.file_paths) = 2
    /\ oss_log = <<HealthProbe(Json([status |-> "degraded"]))>>
    /\ oss_result.error = OSS_UNAVAILABLE
    /\ oss_result.summary.failed = 2

\* a filter entry in lower case
LowerExt(e) == IF e = ".J" THEN ".j" ELSE IF e = ".X" THEN ".x" ELSE e

\* the files below the directory whose suffix is in the filter, ignoring case
MatchingFiles(dir, filter) ==
    {p \in DOMAIN disk :
        /\ Len(p) > Len(dir) /\ SubSeq(p, 1, Len(dir)) = dir
        /\ \/ filter = {}
           \/ \E e \in filter :
                LowerExt(e) = LowerExt(Str(PathSuffix(Chars(LastPart(p)))))}

\* C17: upload_directory over an existing directory in which no file
\* matches the extension filter, or which holds no file, returns
\* success:true with the summary 0/0/0 and makes no call to the OSS
\* service; over a path that does not exist or is no directory it returns
\* success:false with the same summary.
C17_DirectoryWithoutMatch ==
    (InUploader /\ oss_request.op = "upload_directory") =>
        LET dir == oss_request.directory_path
            zero == [total |-> 0, successful |-> 0, failed |-> 0]
        IN  /\ dir \notin dirs =>
                /\ oss_pc = "returned"
                /\ oss_result.success = FALSE
                /\ oss_result.summary = zero
                /\ oss_log = <<>>
            /\ (dir \in dirs /\ MatchingFiles(dir, oss_request.file_extensions) = {}) =>
                /\ oss_pc = "returned"
                /\ oss_result.success = TRUE
                /\ oss_result.summary = zero
                /\ oss_log = <<>>

C17_Witness ==
    /\ oss_pc = "returned"
    /\ oss_request = [op |-> "upload_directory", directory_path |-> <<"texts">>,
                      file_extensions |-> {".j"}]
    /\ <<"texts", "a.x">> \in DOMAIN disk
    /\ oss_result.success = TRUE
    /\ oss_result.summary = [total |-> 0, successful |-> 0, failed |-> 0]
    /\ oss_log = <<>>

\* the paths of the batch that can be read, in order
Readable(paths) == SelectSeq(paths, LAMBDA p : CanRead(dirs, disk, unreadable, p))

\* a batch upload has got past a healthy probe and returned
BatchReturned ==
    /\ oss_pc = "returned"
    /\ oss_call.op = "upload_files_batch"
    /\ oss_call.file_paths # <<>>
    /\ ReportsHealthy(oss_log[1].answer)

\* C18: in a multi-file batch upload the files that do not exist or cannot
\* be read are left out of the outbound request, the readable files are
\* sent in exactly one multi-part request, and every skipped file counts
\* toward 'failed' in the summary returned, also when the upstream request
\* succeeds.
C18_SkippedCountAsFailed ==
    BatchReturned =>
        LET paths == oss_call.file_paths
            sent == Readable(paths)
            skipped == Len(paths) - Len(sent)
        IN  /\ sent = <<>> => Posts = <<>>
            /\ sent # <<>> =>
                /\ Len(Posts) = 1
                /\ Posts[1].url = "/upload/multiple"
                /\ Posts[1].files = [k \in 1..Len(sent) |-> LastPart(sent[k])]
            /\ oss_result.summary.failed >= skipped

\* C19: a failed transfer (error status, timeout, connection error) in
\* upload_single_file, upload_multiple_files or upload_text_content is
\* returned as a success:false result and never raised; for the multi-file
\* path the summary has successful 0 and failed = total = the number of
\* requested paths.
C19_FailedTransferReturned ==
    /\ oss_pc # "raised"
    /\ (oss_pc = "returned" /\ oss_call.op \in ProbedOps /\ Posts # <<>>
            /\ Posts[1].answer.kind # "json") =>
        /\ oss_result.success = FALSE
        /\ oss_call.op = "upload_files_batch" =>
               oss_result.summary = [total |-> Len(oss_call.file_paths),
                                     successful |-> 0,
                                     failed |-> Len(oss_call.file_paths)]

C19_Witness ==
    /\ oss_pc = "returned"
    /\ oss_call.op = "upload_files_batch"
    /\ Len(oss_call.file_paths) = 2
    /\ Len(Posts) = 1
    /\ Len(Posts[1].files) = 1
    /\ Posts[1].answer.kind = "timeout"
    /\ oss_result.success = FALSE
    /\ oss_result.summary.total = 2

\* C20: when the OSS service answers a proxy endpoint (single, multiple,
\* text) with an HTTP error status, the response to the client has that
\* same status code, and a detail for the body of the answer.
C20_DownstreamStatusForwarded ==
    (oss_pc = "responded" /\ oss_log # <<>> /\ oss_log[1].answer.kind = "http_error") =>
        /\ oss_result.status_code = oss_log[1].answer.status_code
        /\ "detail" \in DOMAIN oss_result

\* the health probes of the log
Probes == SelectSeq(oss_log, LAMBDA e : e.ev = "GET")

\* C21: outbound calls are never retried: an OSSUploader operation sends at
\* most one health probe and at most one request to an upload endpoint, and
\* an upload_files request submits at most one task, whether the call
\* succeeds, fails or times out.
C21_NoRetry ==
    /\ Len(queue) <= 1
    /\ InUploader => (Len(Probes) <= 1 /\ Len(Posts) <= 1)

C21_Witness ==
    /\ oss_pc = "returned"
    /\ oss_request.op = "upload_directory"
    /\ Len(Probes) = 1
    /\ Len(Posts) = 1
    /\ Posts[1].answer.kind = "timeout"
    /\ oss_result.success = FALSE
    /\ queue = <<>>

\* the paths of a sequence, as a set
PathSet(paths) == {paths[k] : k \in DOMAIN paths}

\* C23: extension filtering in upload_directory is case-insensitive: a file
\* under the directory is selected exactly when its suffix equals one of the
\* filter's extensions ignoring letter case, whatever the case of the suffix
\* and of the filter entries; with no filter every file is selected.
C23_CaseInsensitiveFilter ==
    (InUploader /\ oss_request.op = "upload_directory"
        /\ oss_request.directory_path \in dirs) =>
        LET selected == MatchingFiles(oss_request.directory_path,
                                      oss_request.file_extensions)
        IN  IF selected = {}
            THEN oss_call = oss_request /\ oss_pc = "returned"
            ELSE /\ oss_call.op = "upload_files_batch"
                 /\ PathSet(oss_call.file_paths) = selected
                 /\ Len(oss_call.file_paths) = Cardinality(selected)

\* the result of the batch path was made by the path itself, not by the service
OwnSummary ==
    /\ oss_pc = "returned"
    /\ oss_call.op \in {"upload_files_batch", "upload_directory"}
    /\ ~(Posts # <<>> /\ Posts[1].answer.kind = "json")

\* C24: every batch summary the OSS upload path produces itself (service
\* unavailable, empty path list, no readable file, upstream error, empty
\* directory) has total = successful + failed, and total is the number of
\* file paths requested.
C24_SummaryAddsUp ==
    OwnSummary =>
        LET summary == oss_result.summary
            requested == IF oss_call.op = "upload_files_batch"
                         THEN Len(oss_call.file_paths) ELSE 0
        IN  /\ summary.total = summary.successful + summary.failed
            /\ summary.total = requested

\* the client's file name with a collision number before its extension
WithCollisionSuffix(fn, k) ==
    SubSeq(fn, 1, Len(fn) - Len(PathSuffix(fn))) \o <<"_">> \o Dec(k) \o PathSuffix(fn)

\* C25: every file that upload_files writes lies directly inside the
\* batch's own directory, for every client-supplied file name, also one with
\* path separators or '..': nothing is written outside the batch directory,
\* and saved_as is the original file name or differs from it only by a
\* collision suffix.
C25_FilesInsideBatchDirectory ==
    pc \in {"loop", "done"} =>
        /\ \A p \in DOMAIN disk :
                /\ Len(p) = Len(user_task_path) + 1
                /\ SubSeq(p, 1, Len(user_task_path)) = user_task_path
        /\ \A n \in 1..Len(saved_files) :
                \E m \in 1..i :
                    /\ saved_files[n].filename = Str(files[m].filename)
                    /\ \/ saved_files[n].saved_as = saved_files[n].filename
                       \/ \E k \in 1..MAX_COLLISION_COUNTER :
                            saved_files[n].saved_as
                                = Str(WithCollisionSuffix(files[m].filename, k))

----------------------------------------------------------------------------
(* Requests served at once *)

\* the files of request b whose whole content is on disk
OnDiskOf(b) ==
    {k \in 1..batches[b].i :
        \E p \in DOMAIN disk :
            disk[p].src = SrcOf(b, k) /\ disk[p].size = batches[b].files[k].size}

\* a file reported as saved has lost its content to another writer
Overwritten == \E b \in {1, 2} : Len(batches[b].saved_files) > Cardinality(OnDiskOf(b))

\* both requests have returned
BothDone == batches[1].pc = "done" /\ batches[2].pc = "done"

\* the two requests were given a file of the same name for the same place
SameTarget ==
    \E k1 \in DOMAIN batches[1].files, k2 \in DOMAIN batches[2].files :
        LoopPath(batches[1].user_task_path, batches[1].files[k1].filename, 0)
            = LoopPath(batches[2].user_task_path, batches[2].files[k2].filename, 0)

====
